---- MODULE Spec2Model ----
(***************************************************************************)
(* A model of phoebe/backend/backends.py: the planners that turn a bundle  *)
(* into a time grid, work items ("infos") and empty synthetics, and the    *)
(* phoebe() backend that calibrates passband luminosities and then walks   *)
(* the time grid filling the synthetics; and the legacy() backend that     *)
(* hands the items to PHOEBE 1 and translates its meshes.                  *)
(*                                                                         *)
(* Times are integers (ticks).  The bundle, the dynamics, the System and   *)
(* the ParameterSet of synthetics are external: the model keeps of them    *)
(* what backends.py reads and writes.                                      *)
(***************************************************************************)
EXTENDS Integers, Sequences, FiniteSets, TLC

VARIABLES
    b,            \* the bundle: hierarchy, compute options, datasets
    args,         \* the arguments of the call: times, as_generator, ...
    pc,           \* position in the running function
    times,        \* the time grid returned by the planner
    infos,        \* per grid entry, the work items (indices into needed_syns)
    needed_syns,  \* the work items, in the order they were built
    new_syns,     \* the synthetics, one per work item
    i,            \* index of the current time step
    j,            \* index of the current item of infos[i]
    system,       \* the universe.System: time it stands at, calls of this step
    pblum,        \* the calibration: scales, pending copies, log
    yields,       \* what the generator has yielded so far
    error,        \* the exception that ended the run, or NoException
    legacy        \* legacy(): its counters, the engine's parameters and calls

vars == <<b, args, pc, times, infos, needed_syns, new_syns, i, j, system,
          pblum, yields, error, legacy>>

----------------------------------------------------------------------------
(* Bounds of the model *)

\* time values of a dataset are 1..MaxTime
MaxTime == 2
\* a time array has at most MaxLen entries
MaxLen == 2
\* the eclipse solver finds a crossing at most MaxResidual ticks after the
\* ephemeris time
MaxResidual == 1

----------------------------------------------------------------------------
(* Values *)

\* the component None ("system level")
None == "None"
\* the time None of the protomesh (line 281: 'times': [None])
NoneTime == -1000

_backends_that_support_protomesh == {"phoebe", "legacy"}
_backends_that_support_automesh == {"phoebe", "legacy"}
_backends_that_require_meshing == {"phoebe", "legacy"}

Range(s) == {s[k] : k \in DOMAIN s}

\* list.index: the first position of x in s
Index(s, x) == CHOOSE k \in DOMAIN s : s[k] = x /\ \A m \in 1..(k-1) : s[m] /= x

Last(s) == s[Len(s)]

RECURSIVE SortSet(_)
\* sorted(set): the elements of a finite set of integers, ascending
SortSet(S) ==
    IF S = {} THEN <<>>
    ELSE LET m == CHOOSE x \in S : \A y \in S : x <= y
         IN <<m>> \o SortSet(S \ {m})

\* np.linspace(start, stop, num): for num = 1 the start alone
Linspace(start, stop, num) ==
    IF num = 1 THEN <<start>>
    ELSE [k \in 1..num |-> start + ((k - 1) * (stop - start)) \div (num - 1)]

RECURSIVE Oversample(_, _, _)
\* line 135: every time t becomes linspace(t-exptime/2, t+exptime/2, n), flattened
Oversample(ts, exptime, n) ==
    IF ts = <<>> THEN <<>>
    ELSE Linspace(Head(ts) - exptime \div 2, Head(ts) + exptime \div 2, n)
         \o Oversample(Tail(ts), exptime, n)

----------------------------------------------------------------------------
(* _needs_mesh, lines 33-51 *)

\* faulty variant: the dynamical radial velocities are not recognised
_needs_mesh_no_rv_shortcut(bb, ds, kind, component) ==
    IF bb.compute_kind \notin _backends_that_require_meshing THEN FALSE
    ELSE IF kind \notin {"mesh", "lc", "rv"} THEN FALSE
    ELSE IF kind = "lc" /\ bb.compute_kind = "phoebe"
            /\ ds.lc_method = "analytical" THEN FALSE
    ELSE TRUE

_needs_mesh(bb, ds, kind, component) ==
    IF bb.compute_kind \notin _backends_that_require_meshing THEN FALSE
    ELSE IF kind \notin {"mesh", "lc", "rv"} THEN FALSE
    ELSE IF kind = "lc" /\ bb.compute_kind = "phoebe"
            /\ ds.lc_method = "analytical" THEN FALSE
    ELSE IF kind = "rv" /\ (bb.compute_kind = "legacy"
                            \/ ds.rv_method[component] = "dynamical") THEN FALSE
    ELSE TRUE

----------------------------------------------------------------------------
(* _extract_from_bundle_by_time, lines 60-175 *)

\* faulty variant: the passed times also stand in for an empty time array
\* (the override of the commented lines 114-116)
this_times_for_empty(bb, provided_times, allow_oversample, ds, component) ==
    LET own == ds.times[component]
        overridden == IF ~provided_times.none THEN provided_times.val ELSE own
    IN IF allow_oversample /\ ds.kind = "lc" /\ ds.exptime > 0
          /\ ds.fti_method = "oversample"
       THEN Oversample(overridden, ds.exptime, ds.fti_oversample)
       ELSE overridden

\* lines 109-135: the times of one (dataset, component), after the override
\* by the passed times and the oversampling of the exposure
this_times(bb, provided_times, allow_oversample, ds, component) ==
    LET own == ds.times[component]
        overridden == IF Len(own) > 0 /\ ~provided_times.none
                      THEN provided_times.val ELSE own
    IN IF allow_oversample /\ ds.kind = "lc" /\ ds.exptime > 0
          /\ ds.fti_method = "oversample"
       THEN Oversample(overridden, ds.exptime, ds.fti_oversample)
       ELSE overridden

\* lines 99-151: the work items one (dataset, component) of the loop builds
this_infos(bb, provided_times, allow_oversample, ds, component) ==
    IF component = None /\ ds.kind \notin {"lc", "mesh"} THEN <<>>
    ELSE IF component \notin ds.has THEN <<>>
    ELSE LET tt == this_times(bb, provided_times, allow_oversample, ds, component)
             components == IF component = None /\ ds.kind = "mesh"
                           THEN bb.meshables ELSE <<component>>
         IN IF Len(tt) = 0 THEN <<>>
            ELSE [c \in 1..Len(components) |->
                    [dataset |-> ds.name,
                     component |-> components[c],
                     kind |-> ds.kind,
                     needs_mesh |-> _needs_mesh(bb, ds, ds.kind, components[c]),
                     times |-> tt]]

RECURSIVE _register_times_first_only(_, _, _)
\* faulty variant: a time that is already in the grid is skipped, not joined
_register_times_first_only(g, k, ts) ==
    IF ts = <<>> THEN g
    ELSE IF Head(ts) \in Range(g.times)
         THEN _register_times_first_only(g, k, Tail(ts))
         ELSE _register_times_first_only(
                [g EXCEPT !.times = Append(@, Head(ts)),
                          !.infos = Append(@, <<k>>)], k, Tail(ts))

RECURSIVE _register_times(_, _, _)
\* lines 153-161: put item k at every grid entry matching one of its times
_register_times(g, k, ts) ==
    IF ts = <<>> THEN g
    ELSE LET time_ == Head(ts) IN
         IF time_ \in Range(g.times)
         THEN LET ind == Index(g.times, time_)
              IN _register_times([g EXCEPT !.infos[ind] = Append(@, k)], k, Tail(ts))
         ELSE _register_times([g EXCEPT !.times = Append(@, time_),
                                        !.infos = Append(@, <<k>>)], k, Tail(ts))

\* faulty variant: the by-dataset planner merges by time as the by-time one
_add_info_merged(g, info, by_time) ==
    _register_times([g EXCEPT !.needed_syns = Append(@, info)],
                    Len(g.needed_syns) + 1, info.times)

\* lines 151-161 (by time) and 254-256 (by dataset): one work item joins
\* needed_syns and the groupings
_add_info(g, info, by_time) ==
    LET k == Len(g.needed_syns) + 1
        g1 == [g EXCEPT !.needed_syns = Append(@, info)]
    IN IF by_time THEN _register_times(g1, k, info.times)
       ELSE [g1 EXCEPT !.infos = Append(@, <<k>>)]

RECURSIVE _add_infos(_, _, _)
_add_infos(g, items, by_time) ==
    IF items = <<>> THEN g
    ELSE _add_infos(_add_info(g, Head(items), by_time), Tail(items), by_time)

\* line 99: for component in b.hierarchy.get_stars()+[None]
LoopComponents(bb) == bb.stars \o <<None>>

RECURSIVE _scan_components(_, _, _, _, _, _, _)
_scan_components(g, bb, provided_times, allow_oversample, ds, c, by_time) ==
    IF c > Len(LoopComponents(bb)) THEN g
    ELSE _scan_components(
            _add_infos(g, this_infos(bb, provided_times, allow_oversample, ds,
                                     LoopComponents(bb)[c]), by_time),
            bb, provided_times, allow_oversample, ds, c + 1, by_time)

RECURSIVE _scan_datasets(_, _, _, _, _, _)
\* lines 84-161: the loop over the datasets; a dataset that is not enabled
\* for the compute options is skipped
_scan_datasets(g, bb, provided_times, allow_oversample, d, by_time) ==
    IF d > Len(bb.datasets) THEN g
    ELSE LET ds == bb.datasets[d]
             g1 == IF ~ds.enabled THEN g
                   ELSE _scan_components(g, bb, provided_times, allow_oversample,
                                         ds, 1, by_time)
         IN _scan_datasets(g1, bb, provided_times, allow_oversample, d + 1, by_time)

\* faulty variant: the protomesh items are flagged as the pbmesh items are
_handle_protomesh_needs_mesh(bb, g) ==
    IF bb.compute_kind \in _backends_that_support_protomesh
    THEN [g EXCEPT !.needed_syns = @ \o
            [c \in 1..Len(bb.meshables) |->
                [dataset |-> "protomesh",
                 component |-> bb.meshables[c],
                 kind |-> "mesh",
                 needs_mesh |-> TRUE,
                 times |-> <<NoneTime>>]]]
    ELSE g

\* lines 268-284
_handle_protomesh(bb, g) ==
    IF bb.compute_kind \in _backends_that_support_protomesh
    THEN [g EXCEPT !.needed_syns = @ \o
            [c \in 1..Len(bb.meshables) |->
                [dataset |-> "protomesh",
                 component |-> bb.meshables[c],
                 kind |-> "mesh",
                 needs_mesh |-> FALSE,
                 times |-> <<NoneTime>>]]]
    ELSE g

\* line 302: a dictionary keyed by dataset keeps, per dataset, the last item
\* that needs a mesh and is no mesh
needs_mesh_infos(needed) ==
    {k \in DOMAIN needed :
        /\ needed[k].needs_mesh /\ needed[k].kind /= "mesh"
        /\ \A m \in DOMAIN needed :
              (m > k /\ needed[m].needs_mesh /\ needed[m].kind /= "mesh")
                 => needed[m].dataset /= needed[k].dataset}

\* lines 313-319: the times of those items, without duplicates, sorted
_automesh_times(needed) ==
    SortSet(UNION {Range(needed[k].times) : k \in needs_mesh_infos(needed)})

RECURSIVE _automesh_register(_, _, _)
\* lines 328-331
_automesh_register(g, k, ts) ==
    IF ts = <<>> THEN g
    ELSE _automesh_register(
            [g EXCEPT !.infos[Index(g.times, Head(ts))] = Append(@, k)],
            k, Tail(ts))

RECURSIVE _automesh_components(_, _, _, _, _)
\* lines 309-333: one pbmesh item per meshable component
_automesh_components(bb, g, tt, c, use_times) ==
    IF c > Len(bb.meshables) THEN g
    ELSE LET k == Len(g.needed_syns) + 1
             this_info == [dataset |-> "pbmesh",
                           component |-> bb.meshables[c],
                           kind |-> "mesh",
                           needs_mesh |-> TRUE,
                           times |-> tt]
             g1 == IF use_times /\ g.times /= <<>>
                   THEN _automesh_register(g, k, tt) ELSE g
         IN _automesh_components(bb,
                [g1 EXCEPT !.needed_syns = Append(@, this_info)],
                tt, c + 1, use_times)

\* faulty variant: the pbmesh items are added whatever the engine supports
_handle_automesh_any_engine(bb, g, use_times) ==
    _automesh_components(bb, g, _automesh_times(g.needed_syns), 1, use_times)

\* lines 286-335
_handle_automesh(bb, g, use_times) ==
    IF bb.compute_kind \in _backends_that_support_automesh
    THEN _automesh_components(bb, g, _automesh_times(g.needed_syns), 1, use_times)
    ELSE g

RECURSIVE _insert_sorted(_, _)
_insert_sorted(pairs, p) ==
    IF pairs = <<>> THEN <<p>>
    ELSE IF p[1] < Head(pairs)[1] THEN <<p>> \o pairs
    ELSE <<Head(pairs)>> \o _insert_sorted(Tail(pairs), p)

RECURSIVE _sort_pairs(_)
_sort_pairs(pairs) ==
    IF pairs = <<>> THEN <<>>
    ELSE _insert_sorted(_sort_pairs(Tail(pairs)), Head(pairs))

\* faulty variant: the grid is returned as it was collected, unsorted
_sort_grid_skipped(g) == g

\* faulty variant: the times are sorted and the active lists are left where they were
_sort_grid_times_only(g) ==
    [g EXCEPT !.times = SortSet(Range(g.times))]

\* lines 170-173: zip(times, infos), sort, unzip
_sort_grid(g) ==
    LET ti == _sort_pairs([k \in 1..Len(g.times) |-> <<g.times[k], g.infos[k]>>])
    IN [g EXCEPT !.times = [k \in 1..Len(ti) |-> ti[k][1]],
                 !.infos = [k \in 1..Len(ti) |-> ti[k][2]]]

EmptyGrid == [needed_syns |-> <<>>, times |-> <<>>, infos |-> <<>>]

_extract_from_bundle_by_time(bb, provided_times, protomesh, pbmesh, allow_oversample) ==
    LET g0 == _scan_datasets(EmptyGrid, bb, provided_times, allow_oversample, 1, TRUE)
        g1 == IF protomesh THEN _handle_protomesh(bb, g0) ELSE g0
        g2 == IF pbmesh THEN _handle_automesh(bb, g1, TRUE) ELSE g1
    IN _sort_grid(g2)

\* lines 177-266: the same scan without oversampling, every work item in a
\* grouping of its own, no time grid and no sort; the automesh is called with
\* times=False
_extract_from_bundle_by_dataset(bb, provided_times, protomesh, pbmesh) ==
    LET g0 == _scan_datasets(EmptyGrid, bb, provided_times, FALSE, 1, FALSE)
        g1 == IF protomesh THEN _handle_protomesh(bb, g0) ELSE g0
    IN IF pbmesh THEN _handle_automesh(bb, g1, FALSE) ELSE g1

\* the series of an eclipse-timing synthetic as its constructor leaves them:
\* empty (the allocator "instantiates an empty, kind-specific result record")
etv_syn == [Ns |-> <<>>, time_ephems |-> <<>>, time_ecls |-> <<>>, etvs |-> <<>>]

\* lines 338-371: one empty synthetic per work item, tagged with the item's
\* component, dataset and kind; the time array is handed to the constructor
\* (**needed_syn) and set when the synthetic is initialised (lines 679, 717);
\* a mesh gets the datasets that need per-triangle columns (line 348, 356).
\* values is what the synthetic holds (etv: the four series of an
\* eclipse-timing synthetic); log and writes record every write made to it,
\* in order
_create_syns(needed) ==
    [k \in 1..Len(needed) |->
        [component |-> needed[k].component,
         dataset |-> needed[k].dataset,
         kind |-> needed[k].kind,
         times |-> needed[k].times,
         dataset_fields |-> IF needed[k].kind = "mesh"
                            THEN {needed[m].dataset : m \in
                                    {n \in DOMAIN needed : needed[n].needs_mesh}}
                            ELSE {},
         values |-> <<>>,
         etv |-> etv_syn,
         horizon |-> {},
         columns |-> {},
         log |-> <<>>,
         writes |-> 0]]

\* ParameterSet.filter(component=, dataset=, kind=): the synthetics so tagged
_filter(syns, component, dataset, kind) ==
    {k \in DOMAIN syns : /\ syns[k].component = component
                         /\ syns[k].dataset = dataset
                         /\ syns[k].kind = kind}

----------------------------------------------------------------------------
(* The bundles and arguments the model is run on *)

\* component names; 'primary' and 'secondary' are the names legacy() knows
Comps == {"A", "B", "C", "primary", "secondary"}
CompsOrNone == Comps \cup {None}

\* the time arrays a dataset may hold: any order, duplicates allowed
TimeArrays == UNION {[1..n -> 1..MaxTime] : n \in 0..MaxLen}

\* 'times=None' or a passed array
NoProvidedTimes == [none |-> TRUE, val |-> <<>>]
ProvidedTimes(arr) == [none |-> FALSE, val |-> arr]

DefaultDataset(name, kind) ==
    [name |-> name, kind |-> kind, enabled |-> TRUE,
     has |-> {},
     times |-> [c \in CompsOrNone |-> <<>>],
     lc_method |-> "numerical",
     rv_method |-> [c \in Comps |-> "flux-weighted"],
     exptime |-> 0, fti_method |-> "none", fti_oversample |-> 1,
     pblum_ref |-> [c \in Comps |-> "self"]]

\* the dataset holds a time qualifier for this component
WithTimes(ds, component, arr) ==
    [ds EXCEPT !.has = @ \cup {component}, !.times[component] = arr]

\* a detached system: the stars are the meshable components, none is an
\* envelope; keplerian dynamics; a single star is no roche star (line 448)
Bundle(stars, datasets) ==
    [compute_kind |-> "phoebe", stars |-> stars, meshables |-> stars,
     envelope |-> FALSE, dynamics_method |-> "keplerian",
     distortion_method |-> IF Len(stars) = 1 THEN "rotstar" ELSE "roche",
     mesh_method |-> "marching",
     t0 |-> 0, datasets |-> datasets]

\* the first dataset: every kind, every time array
FirstDatasets(stars) ==
    LET first == stars[1] IN
    UNION {
      { WithTimes(DefaultDataset("d1", "lc"), None, a),
        WithTimes([DefaultDataset("d1", "lc") EXCEPT !.lc_method = "analytical"],
                  None, a),
        WithTimes([DefaultDataset("d1", "lc") EXCEPT
                      !.exptime = 2, !.fti_method = "oversample",
                      !.fti_oversample = 3], None, a),
        WithTimes(DefaultDataset("d1", "rv"), first, a),
        WithTimes([DefaultDataset("d1", "rv") EXCEPT
                      !.rv_method = [c \in Comps |-> "dynamical"]], first, a),
        WithTimes(DefaultDataset("d1", "orb"), first, a),
        WithTimes(DefaultDataset("d1", "etv"), first, a),
        WithTimes(DefaultDataset("d1", "ifm"), first, a),
        WithTimes(DefaultDataset("d1", "sp"), first, a),
        WithTimes(DefaultDataset("d1", "mesh"), None, a) }
      : a \in TimeArrays }

\* the datasets after the first: none, a light curve, or radial velocities of
\* the last star at descending times
MoreDatasets(stars) ==
    { <<>>,
      << WithTimes(DefaultDataset("d2", "lc"), None, <<1, MaxTime>>) >>,
      << WithTimes([DefaultDataset("d2", "rv") EXCEPT
                       !.rv_method = [c \in Comps |-> "dynamical"]],
                   stars[Len(stars)], <<MaxTime, 1>>) >> }

RunBundles ==
    UNION { { Bundle(stars, <<d1>> \o more) :
                d1 \in FirstDatasets(stars), more \in MoreDatasets(stars) }
            : stars \in { <<"A">>, <<"A", "B">> } }

RECURSIVE _resolves(_, _, _)
\* following the references from component c ends at a 'self' component
_resolves(ref, c, n) ==
    IF ref[c] = "self" THEN TRUE
    ELSE IF n = 0 THEN FALSE
    ELSE _resolves(ref, ref[c], n - 1)

\* the acyclic choices of pblum_ref: 'self' or another component, every
\* chain of references ending at a 'self' component
AcyclicRefs(stars) ==
    {ref \in [Comps -> Comps \cup {"self"}] :
        /\ \A c \in Comps \ Range(stars) : ref[c] = "self"
        /\ \A c \in Range(stars) :
              ref[c] /= c /\ ref[c] \in Range(stars) \cup {"self"}
              /\ _resolves(ref, c, Len(stars))}

\* light curves of two or three stars with every acyclic choice of pblum_ref
PblumBundles ==
    UNION { { Bundle(stars,
                <<[WithTimes(DefaultDataset("d1", "lc"), None, <<1>>)
                     EXCEPT !.pblum_ref = r1]>> \o more) :
                r1 \in AcyclicRefs(stars),
                more \in {<<>>} \cup
                    { <<[WithTimes(DefaultDataset("d2", "lc"), None, <<1>>)
                           EXCEPT !.pblum_ref = r2]>> : r2 \in AcyclicRefs(stars) } }
            : stars \in { <<"A", "B">>, <<"A", "B", "C">> } }

\* lines 452-476: the dynamics the backend knows
_dynamics_methods == {"nbody", "rebound", "bs", "keplerian"}

\* one star, two stars or an envelope, with every dynamics and a dynamics the
\* backend does not know, for a light curve or an orbit
DynamicsBundles ==
    { [bb EXCEPT !.dynamics_method = m] :
        bb \in UNION {
            { Bundle(<<"A">>, <<d1>>),
              Bundle(<<"A", "B">>, <<d1>>),
              [Bundle(<<"A", "B">>, <<d1>>) EXCEPT !.meshables = <<"C">>,
                                                  !.envelope = TRUE] }
            : d1 \in { WithTimes(DefaultDataset("d1", "lc"), None, <<1, MaxTime>>),
                       WithTimes(DefaultDataset("d1", "orb"), "A", <<1>>) } },
        m \in _dynamics_methods \cup {"other"} }

\* streaming or not, with and without the mesh datasets; or passed times
RunArgs ==
    { [times |-> NoProvidedTimes, as_generator |-> g,
       protomesh |-> m[1], pbmesh |-> m[2], horizon |-> FALSE]
      : g \in BOOLEAN, m \in { <<FALSE, FALSE>>, <<TRUE, TRUE>>, <<FALSE, TRUE>> } }
    \cup
    { [times |-> ProvidedTimes(<<MaxTime, 1>>), as_generator |-> g,
       protomesh |-> FALSE, pbmesh |-> FALSE, horizon |-> FALSE]
      : g \in BOOLEAN }

PblumArgs ==
    { [times |-> NoProvidedTimes, as_generator |-> FALSE,
       protomesh |-> FALSE, pbmesh |-> FALSE, horizon |-> FALSE] }

----------------------------------------------------------------------------
(* phoebe(), lines 373-827 *)

\* a mesh dataset on one star or two, for every distortion and mesh method,
\* one of each that the backend does not know
HorizonBundles ==
    { [Bundle(stars, << WithTimes(DefaultDataset("d1", "mesh"), None, <<1, MaxTime>>) >>)
         EXCEPT !.distortion_method = d, !.mesh_method = m] :
        stars \in { <<"A">>, <<"A", "B">> },
        d \in {"roche", "rotstar", "other"},
        m \in {"marching", "wd", "other"} }

\* the horizons are asked for
HorizonArgs ==
    { [times |-> NoProvidedTimes, as_generator |-> FALSE,
       protomesh |-> FALSE, pbmesh |-> FALSE, horizon |-> TRUE] }


\* an exception: its class, the kind its message names, the line that raises
NoException == [type |-> "none", kind |-> "", line |-> 0]

\* legacy() before its first statement: the engine's two radial-velocity
\* identifiers, the parameters set and the calls made; the counters lcnum and
\* rvnum and the name dep, not yet bound; the warnings logged and what
\* fill_mesh did with each key
NoLegacy ==
    [rv_id |-> <<"", "">>, pars |-> <<>>, calls |-> <<>>,
     lcnum |-> 0, rvnum |-> 0, dep |-> "unbound",
     warnings |-> {}, translated |-> {}]

\* trajectory: the arrays of the dynamics exist; traj_reads: how often the
\* loop has read them
\* horizons: what handle_eclipses last returned is a horizon per body
NoSystem == [time |-> NoneTime, step |-> -1, calls |-> <<>>, trajectory |-> FALSE,
             traj_reads |-> 0, horizons |-> FALSE]

NoPblum == [d |-> 0, scale |-> <<>>, pblum_copy |-> <<>>, pending |-> {},
            written |-> <<>>, read_unresolved |-> FALSE]

DatasetNames(bb) == {bb.datasets[d].name : d \in DOMAIN bb.datasets}

Init ==
    /\ \/ b \in RunBundles /\ args \in RunArgs
       \/ b \in PblumBundles /\ args \in PblumArgs
       \/ b \in DynamicsBundles /\ args \in PblumArgs
       \/ b \in HorizonBundles /\ args \in HorizonArgs
    /\ pc = "start"
    /\ times = <<>>
    /\ infos = <<>>
    /\ needed_syns = <<>>
    /\ new_syns = <<>>
    /\ i = 1
    /\ j = 1
    /\ system = NoSystem
    /\ pblum = NoPblum
    /\ yields = <<>>
    /\ error = NoException
    /\ legacy = NoLegacy

\* lines 416-440: the planner is called with allow_oversample=True
Extract ==
    /\ pc = "start"
    /\ LET g == _extract_from_bundle_by_time(b, args.times, args.protomesh,
                                             args.pbmesh, TRUE)
       IN /\ times' = g.times
          /\ infos' = g.infos
          /\ needed_syns' = g.needed_syns
          /\ new_syns' = _create_syns(g.needed_syns)
    /\ pc' = "initialize"
    /\ UNCHANGED <<legacy, b, args, i, j, system, pblum, yields, error>>

\* a value read at the current time step: from the System's current state
\* (observe, mesh columns), from the trajectory or from the etv solver
_value(src) == [time |-> times[i], src |-> src, sys_step |-> system.step]

\* lines 491-526: the protomesh synthetics of every meshable component
_fill_protomesh(syns) ==
    [k \in DOMAIN syns |->
        IF syns[k].dataset = "protomesh"
           /\ \E c \in DOMAIN b.meshables : b.meshables[c] = syns[k].component
        THEN [syns[k] EXCEPT
                !.values = Append(@, [time |-> NoneTime, src |-> "protomesh",
                                      sys_step |-> -1]),
                !.log = Append(@, [time |-> NoneTime, src |-> "protomesh",
                                   sys_step |-> -1]),
                !.writes = @ + 1]
        ELSE syns[k]]

\* lines 451, 537, 604: a trajectory is computed and read only for several
\* meshable components or an envelope
_has_trajectory(bb) == Len(bb.meshables) > 1 \/ bb.envelope

\* lines 442-526: a single roche star is refused; the dynamics (for several
\* meshable components or an envelope; an unknown method is refused), the
\* System and its meshes, the protomesh
Initialize ==
    /\ pc = "initialize"
    /\ IF Len(b.stars) = 1 /\ b.distortion_method = "roche"
       THEN /\ error' = [type |-> "ValueError", kind |-> "distortion_method",
                         line |-> 449]
            /\ pc' = "error"
            /\ UNCHANGED <<system, new_syns>>
       ELSE IF _has_trajectory(b) /\ b.dynamics_method \notin _dynamics_methods
       THEN /\ error' = [type |-> "NotImplementedError", kind |-> "", line |-> 476]
            /\ pc' = "error"
            /\ UNCHANGED <<system, new_syns>>
       ELSE /\ system' = [system EXCEPT !.trajectory = _has_trajectory(b)]
            /\ new_syns' = IF args.protomesh THEN _fill_protomesh(new_syns)
                            ELSE new_syns
            /\ pc' = "pblum"
            /\ UNCHANGED error
    /\ UNCHANGED <<legacy, b, args, times, infos, needed_syns, i, j, pblum, yields>>

\* lines 533-534
_needs_pblum(bb) ==
    \E d \in DOMAIN bb.datasets : bb.datasets[d].kind \in {"lc", "rv"}

\* lines 533-545: no calibration without light curves or radial velocities;
\* otherwise the System is placed at t0, ignoring effects
PblumPosition ==
    /\ pc = "pblum"
    /\ IF _needs_pblum(b)
       THEN /\ system' = [system EXCEPT !.time = b.t0, !.step = 0]
            /\ pblum' = [pblum EXCEPT
                            !.d = 1,
                            !.scale = [p \in Comps \X DatasetNames(b) |-> "unset"],
                            !.written = [p \in Comps \X DatasetNames(b) |-> 0]]
            /\ pc' = "pblum_dataset"
       ELSE /\ pc' = "loop"
            /\ UNCHANGED <<system, pblum>>
    /\ UNCHANGED <<legacy, b, args, times, infos, needed_syns, new_syns, i, j, yields, error>>

\* lines 575-587: the scale of a 'self' component is computed, a reference to
\* another component is stored for later
_self_scaled(ds, component) == ds.pblum_ref[component] = "self"

\* lines 547-587, one dataset: populate the observables at t0 and compute
\* the scale of every 'self' component
PblumDataset ==
    /\ pc = "pblum_dataset"
    /\ IF pblum.d > Len(b.datasets)
       THEN /\ pc' = "loop"
            /\ UNCHANGED pblum
       ELSE LET ds == b.datasets[pblum.d]
                meshablerefs == Range(b.meshables)
                selfs == {c \in meshablerefs : _self_scaled(ds, c)}
            IN IF ds.kind /= "lc"
               THEN /\ pblum' = [pblum EXCEPT !.d = @ + 1]
                    /\ pc' = "pblum_dataset"
               ELSE /\ pblum' = [pblum EXCEPT
                        !.scale = [p \in DOMAIN @ |->
                            IF p[2] = ds.name /\ p[1] \in selfs THEN p[1] ELSE @[p]],
                        !.written = [p \in DOMAIN @ |->
                            IF p[2] = ds.name /\ p[1] \in selfs THEN @[p] + 1 ELSE @[p]],
                        !.pblum_copy = [c \in meshablerefs \ selfs |-> ds.pblum_ref[c]],
                        !.pending = meshablerefs \ selfs]
                    /\ pc' = "pblum_copy"
    /\ UNCHANGED <<legacy, b, args, times, infos, needed_syns, new_syns, i, j, system,
                   yields, error>>

\* lines 591-592: the copies, in the order of the dictionary's items, which
\* is any order; get_pblum_scale of a body that has no scale yet either
\* raises or returns a value that is no resolved scale
PblumCopy ==
    /\ pc = "pblum_copy"
    /\ IF pblum.pending = {}
       THEN /\ pblum' = [pblum EXCEPT !.d = @ + 1]
            /\ pc' = "pblum_dataset"
            /\ UNCHANGED error
       ELSE \E comp \in pblum.pending :
            LET ds == b.datasets[pblum.d]
                comp_copy == pblum.pblum_copy[comp]
                read == pblum.scale[<<comp_copy, ds.name>>]
            IN IF read \in {"unset", "unresolved"}
               THEN \E raises \in BOOLEAN :
                    IF raises
                    THEN /\ pblum' = [pblum EXCEPT !.read_unresolved = TRUE]
                         /\ error' = [type |-> "ValueError", kind |-> "pblum",
                                       line |-> 592]
                         /\ pc' = "error"
                    ELSE /\ pblum' = [pblum EXCEPT
                                !.read_unresolved = TRUE,
                                !.scale[<<comp, ds.name>>] = "unresolved",
                                !.written[<<comp, ds.name>>] = @ + 1,
                                !.pending = @ \ {comp}]
                         /\ pc' = "pblum_copy"
                         /\ UNCHANGED error
               ELSE /\ pblum' = [pblum EXCEPT
                            !.scale[<<comp, ds.name>>] = read,
                            !.written[<<comp, ds.name>>] = @ + 1,
                            !.pending = @ \ {comp}]
                    /\ pc' = "pblum_copy"
                    /\ UNCHANGED error
    /\ UNCHANGED <<legacy, b, args, times, infos, needed_syns, new_syns, i, j, system, yields>>

\* faulty variant: only the first item of the step is looked at
_step_needs_mesh_first(infolist) ==
    infolist /= <<>> /\ needed_syns[infolist[1]].needs_mesh

\* line 613: True in [info['needs_mesh'] for info in infolist]
_step_needs_mesh(infolist) ==
    \E m \in DOMAIN infolist : needed_syns[infolist[m]].needs_mesh

\* lines 598-613: the next time step; the positions of the bodies are read
\* from the trajectory (or are those of the single star)
\* and, in a step that needs a mesh, the instantaneous separations and flux
\* scales of an n-body trajectory (lines 615-617): a name that was never
\* assigned raises NameError
StepBegin ==
    /\ pc = "loop"
    /\ i <= Len(times)
    /\ j' = 1
    /\ LET positions_read == IF _has_trajectory(b) THEN 1 ELSE 0
           reads_inst == /\ _step_needs_mesh(infos[i])
                         /\ b.dynamics_method \in {"nbody", "rebound"}
       IN IF reads_inst /\ ~system.trajectory
          THEN /\ system' = [system EXCEPT !.calls = <<>>,
                                           !.traj_reads = @ + positions_read]
               /\ error' = [type |-> "NameError", kind |-> "inst_ds", line |-> 616]
               /\ pc' = "error"
          ELSE /\ system' = [system EXCEPT
                                !.calls = <<>>,
                                !.traj_reads = @ + positions_read
                                                 + IF reads_inst THEN 1 ELSE 0]
               /\ pc' = IF _step_needs_mesh(infos[i]) THEN "update_positions"
                        ELSE "fill"
               /\ UNCHANGED error
    /\ UNCHANGED <<legacy, b, args, times, infos, needed_syns, new_syns, i, pblum, yields>>

\* line 632
UpdatePositions ==
    /\ pc = "update_positions"
    /\ system' = [system EXCEPT !.time = times[i], !.step = i,
                                !.calls = Append(@, "update_positions")]
    /\ pc' = "handle_eclipses"
    /\ UNCHANGED <<legacy, b, args, times, infos, needed_syns, new_syns, i, j, pblum,
                   yields, error>>

\* lines 644-645
HandleEclipses ==
    /\ pc = "handle_eclipses"
    /\ LET expose_horizon ==
              /\ \E k \in Range(infos[i]) : needed_syns[k].kind = "mesh"
              /\ args.horizon
       IN system' = [system EXCEPT !.calls = Append(@, "handle_eclipses"),
                                   !.horizons = expose_horizon]
    /\ pc' = "populate_observables"
    /\ UNCHANGED <<legacy, b, args, times, infos, needed_syns, new_syns, i, j, pblum,
                   yields, error>>

\* lines 652-654
PopulateObservables ==
    /\ pc = "populate_observables"
    /\ system' = [system EXCEPT !.calls = Append(@, "populate_observables")]
    /\ pc' = "fill"
    /\ UNCHANGED <<legacy, b, args, times, infos, needed_syns, new_syns, i, j, pblum,
                   yields, error>>

\* faulty variant: a kind without a filler falls through without an error
_fill_supported_silent(kind) == TRUE

\* lines 678-725, 819: the kinds the chain of if/elif fills; any other kind
\* reaches the else that raises
_fill_supported(kind) == kind \in {"rv", "lc", "etv", "ifm", "orb", "mesh"}

\* lines 678-816: where the value a filler writes comes from
_fill_source(info) ==
    CASE info.kind = "rv" -> IF info.needs_mesh THEN "system" ELSE "dynamics"
      [] info.kind = "lc" -> "system"
      [] info.kind = "etv" -> "etvs"
      [] info.kind = "ifm" -> "system"
      [] info.kind = "orb" -> "dynamics"
      [] info.kind = "mesh" -> "system"
      [] OTHER -> "none"

\* faulty variant: every kind assigns its fields, none appends
_write_assigns(kind, values, value) == <<value>>

\* lines 678-816: what one write does to the fields of a synthetic.  rv, lc,
\* etv and orb append to their series (lines 687-722); ifm assigns every key
\* of the observables of this step (lines 709-712); a mesh assigns the
\* parameters filtered with time=time (lines 667-671, 724-816): the snapshot
\* of that time
_write(kind, values, value) ==
    CASE kind \in {"rv", "lc", "etv", "orb"} -> Append(values, value)
      [] kind = "ifm" -> <<value>>
      [] OTHER -> SelectSeq(values, LAMBDA v : v.time /= value.time) \o <<value>>

\* line 701: etvs.crossing, the eclipse time the solver finds for the
\* ephemeris time: that time or later by up to MaxResidual ticks
_crossing(info, time) ==
    IF info.kind = "etv" THEN {time + r : r \in 0..MaxResidual} ELSE {time}

\* line 704: the cycle number interpolated from the dataset's Ns at the
\* ephemeris time (one cycle per tick)
_interp_Ns(time) == time

\* faulty variant: the ephemeris time is taken to be in the synthetic already
\* and is not appended
_fill_etv_no_ephems(series, kind, time, time_ecl) ==
    IF kind /= "etv" THEN series
    ELSE [series EXCEPT !.Ns = Append(@, _interp_Ns(time)),
                        !.time_ecls = Append(@, time_ecl),
                        !.etvs = Append(@, time_ecl - time)]

\* lines 698-707: the four appends of the eclipse-timing filler
_fill_etv(series, kind, time, time_ecl) ==
    IF kind /= "etv" THEN series
    ELSE [series EXCEPT !.Ns = Append(@, _interp_Ns(time)),
                        !.time_ephems = Append(@, time),
                        !.time_ecls = Append(@, time_ecl),
                        !.etvs = Append(@, time_ecl - time)]

\* lines 666-816: the write into this_syn, the synthetics tagged with the
\* item's component, dataset and kind
\* lines 778-796: what the fill of a mesh item does about the analytic horizon
\* of the body: "stored", "raise" or nothing ("none")
_horizon_analytic(bb, do_horizon) ==
    IF do_horizon
    THEN IF bb.distortion_method = "roche"
         THEN IF bb.mesh_method = "marching" THEN "stored"
              ELSE IF bb.mesh_method = "wd" THEN "stored"
              ELSE "raise"
         ELSE "none"
    ELSE "none"

\* lines 772-796: the horizon columns the fill of a mesh item stores
_horizon_columns(bb, do_horizon, horizons) ==
    (IF do_horizon /\ horizons THEN {"horizon"} ELSE {})
    \cup (IF _horizon_analytic(bb, do_horizon) = "stored"
          THEN {"horizon_analytic"} ELSE {})

_fill(syns, info, value, time_ecl) ==
    LET this_syn == _filter(syns, info.component, info.dataset, info.kind)
    IN [k \in DOMAIN syns |->
          IF k \in this_syn
          THEN [syns[k] EXCEPT !.values = _write(info.kind, @, value),
                               !.etv = _fill_etv(@, info.kind, value.time, time_ecl),
                               !.horizon =
                                   IF info.kind = "mesh"
                                   THEN @ \cup _horizon_columns(b, args.horizon,
                                                                system.horizons)
                                   ELSE @,
                               !.log = Append(@, value),
                               !.writes = @ + 1]
          ELSE syns[k]]

\* lines 659-820: one item of the step's infolist
Fill ==
    /\ pc = "fill"
    /\ j <= Len(infos[i])
    /\ LET info == needed_syns[infos[i][j]]
       IN IF _fill_supported(info.kind)
          THEN /\ \E time_ecl \in _crossing(info, times[i]) :
                     new_syns' = _fill(new_syns, info, _value(_fill_source(info)),
                                       time_ecl)
               /\ system' = [system EXCEPT !.calls = Append(@, "fill")]
               /\ IF info.kind = "mesh"
                     /\ _horizon_analytic(b, args.horizon) = "raise"
                  THEN /\ error' = [type |-> "NotImplementedError",
                                    kind |-> "mesh_method", line |-> 792]
                       /\ pc' = "error"
                       /\ UNCHANGED j
                  ELSE /\ j' = j + 1
                       /\ pc' = "fill"
                       /\ UNCHANGED error
          ELSE /\ error' = [type |-> "NotImplementedError", kind |-> info.kind,
                             line |-> 820]
               /\ pc' = "error"
               /\ UNCHANGED <<new_syns, system, j>>
    /\ UNCHANGED <<legacy, b, args, times, infos, needed_syns, i, pblum, yields>>

\* faulty variant: the yield inside the loop is not guarded
_yield_each_step_always(as_generator) == TRUE

\* line 822: if as_generator
_yield_each_step(as_generator) == as_generator

\* faulty variant: the calibration is run again after every time step
_after_step_recalibrate == "pblum"

\* line 598: after a time step the for loop goes on with the next one; the
\* calibration of lines 533-592 is outside the loop
_after_step == "loop"

\* lines 822-824: the end of a time step
StepEnd ==
    /\ pc = "fill"
    /\ j > Len(infos[i])
    /\ yields' = IF _yield_each_step(args.as_generator)
                 THEN Append(yields, [syns |-> new_syns, time |-> times[i]])
                 ELSE yields
    /\ i' = i + 1
    /\ pc' = _after_step
    /\ UNCHANGED <<legacy, b, args, times, infos, needed_syns, new_syns, j, system,
                   pblum, error>>

\* lines 826-827: after the loop
Finish ==
    /\ pc = "loop"
    /\ i > Len(times)
    /\ yields' = IF ~args.as_generator
                 THEN Append(yields, [syns |-> new_syns, time |-> NoneTime])
                 ELSE yields
    /\ pc' = "done"
    /\ UNCHANGED <<legacy, b, args, times, infos, needed_syns, new_syns, i, j, system,
                   pblum, error>>

Next ==
    \/ Extract
    \/ Initialize
    \/ PblumPosition
    \/ PblumDataset
    \/ PblumCopy
    \/ StepBegin
    \/ UpdatePositions
    \/ HandleEclipses
    \/ PopulateObservables
    \/ Fill
    \/ StepEnd
    \/ Finish

Spec == Init /\ [][Next]_vars

----------------------------------------------------------------------------
(* The planner on its own: _extract_from_bundle_by_time over bundles with   *)
(* passed times, exposure oversampling and the mesh datasets                *)

\* the exposure settings of a light curve: none, or an exposure of 2 ticks
\* oversampled by 1, 2 or 3
Exposures ==
    { [exptime |-> 0, fti_method |-> "oversample", fti_oversample |-> 3] }
    \cup { [exptime |-> 2, fti_method |-> "oversample", fti_oversample |-> n]
           : n \in {1, 2, 3} }

PlanFirstDatasets ==
    { [WithTimes(DefaultDataset("d1", "lc"), None, a) EXCEPT
          !.lc_method = m, !.exptime = e.exptime, !.fti_method = e.fti_method,
          !.fti_oversample = e.fti_oversample]
      : a \in TimeArrays, m \in {"numerical", "analytical"}, e \in Exposures }

PlanMoreDatasets(stars) ==
    { <<>>,
      << WithTimes(WithTimes(DefaultDataset("d2", "rv"), stars[1], <<MaxTime, 1>>),
                   stars[Len(stars)], <<1>>) >>,
      << WithTimes(DefaultDataset("d2", "mesh"), None, <<1, 1>>) >>,
      << WithTimes(DefaultDataset("d2", "orb"), stars[1], <<MaxTime>>) >>,
      << WithTimes([DefaultDataset("d2", "lc") EXCEPT !.enabled = FALSE],
                   None, <<MaxTime>>) >> }

PlanBundles ==
    UNION { { Bundle(stars, <<d1>> \o more) :
                d1 \in PlanFirstDatasets, more \in PlanMoreDatasets(stars) }
            : stars \in { <<"A">>, <<"A", "B">> } }

PlanArgs ==
    { [times |-> t, as_generator |-> FALSE, protomesh |-> m[1], pbmesh |-> m[2],
       horizon |-> FALSE, allow_oversample |-> o]
      : t \in { NoProvidedTimes, ProvidedTimes(<<>>), ProvidedTimes(<<MaxTime, 1>>) },
        m \in { <<FALSE, FALSE>>, <<TRUE, TRUE>>, <<FALSE, TRUE>> },
        o \in BOOLEAN }

InitPlan ==
    /\ b \in PlanBundles
    /\ args \in PlanArgs
    /\ pc = "plan"
    /\ times = <<>>
    /\ infos = <<>>
    /\ needed_syns = <<>>
    /\ new_syns = <<>>
    /\ i = 1
    /\ j = 1
    /\ system = NoSystem
    /\ pblum = NoPblum
    /\ yields = <<>>
    /\ error = NoException
    /\ legacy = NoLegacy

\* a call of _extract_from_bundle_by_time
PlanByTime ==
    /\ pc = "plan"
    /\ LET g == _extract_from_bundle_by_time(b, args.times, args.protomesh,
                                             args.pbmesh, args.allow_oversample)
       IN /\ times' = g.times
          /\ infos' = g.infos
          /\ needed_syns' = g.needed_syns
          /\ new_syns' = _create_syns(g.needed_syns)
    /\ pc' = "planned"
    /\ UNCHANGED <<legacy, b, args, i, j, system, pblum, yields, error>>

NextPlan == PlanByTime

SpecPlan == InitPlan /\ [][NextPlan]_vars

----------------------------------------------------------------------------
(* Both planners, for every engine: the meshing engines phoebe and legacy    *)
(* and an engine without meshes                                              *)

\* the kinds of compute options: the two of lines 27-31 and one that is in
\* none of the lists
Engines == {"phoebe", "legacy", "jktebop"}

PlannerBundles ==
    UNION { { [Bundle(stars, <<d1>> \o more) EXCEPT !.compute_kind = e] :
                d1 \in FirstDatasets(stars), more \in PlanMoreDatasets(stars),
                e \in Engines }
            : stars \in { <<"A">>, <<"A", "B">> } }

\* no times, the empty array (the default of phoebe() and legacy()) or an
\* array; without or with the protomesh and the pbmesh
PlannerArgs ==
    { [times |-> t, as_generator |-> FALSE, protomesh |-> m, pbmesh |-> m,
       horizon |-> FALSE, allow_oversample |-> TRUE]
      : t \in { NoProvidedTimes, ProvidedTimes(<<>>), ProvidedTimes(<<MaxTime, 1>>) },
        m \in BOOLEAN }

InitPlanners ==
    /\ b \in PlannerBundles
    /\ args \in PlannerArgs
    /\ pc = "plan"
    /\ times = <<>>
    /\ infos = <<>>
    /\ needed_syns = <<>>
    /\ new_syns = <<>>
    /\ i = 1
    /\ j = 1
    /\ system = NoSystem
    /\ pblum = NoPblum
    /\ yields = <<>>
    /\ error = NoException
    /\ legacy = NoLegacy

\* a call of _extract_from_bundle_by_dataset
PlanByDataset ==
    /\ pc = "plan"
    /\ LET g == _extract_from_bundle_by_dataset(b, args.times, args.protomesh,
                                                args.pbmesh)
       IN /\ times' = g.times
          /\ infos' = g.infos
          /\ needed_syns' = g.needed_syns
          /\ new_syns' = _create_syns(g.needed_syns)
    /\ pc' = "planned_by_dataset"
    /\ UNCHANGED <<legacy, b, args, i, j, system, pblum, yields, error>>

NextPlanners == PlanByTime \/ PlanByDataset

SpecPlanners == InitPlanners /\ [][NextPlanners]_vars

----------------------------------------------------------------------------
(* Claims about the planner, checked under SpecPlan *)

StrictlyAscending(s) == \A m \in DOMAIN s : \A n \in DOMAIN s : m < n => s[m] < s[n]

\* the (dataset, component) pairs whose own time array the by-time loop reads:
\* an enabled dataset, a component that holds the time qualifier, a kind
\* that takes the component
OwnTimeArrays ==
    { ds.times[c] : <<ds, c>> \in
        { p \in Range(b.datasets) \X CompsOrNone :
            /\ p[1].enabled
            /\ p[2] \in p[1].has
            /\ p[2] \in Range(LoopComponents(b))
            /\ (p[2] = None => p[1].kind \in {"lc", "mesh"}) } }

\* the work items that take part in the time grid (all but the protomesh)
GridItems == {k \in DOMAIN needed_syns : needed_syns[k].dataset /= "protomesh"}

\* C1, as stated: once the grid is planned, every time value of every enabled
\* dataset's own time array appears in the grid, and the grid is strictly
\* ascending (so every value appears exactly once), whatever the passed times
\* and the oversampling
C1_OwnTimesInGrid ==
    pc = "planned" =>
        /\ StrictlyAscending(times)
        /\ \A own \in OwnTimeArrays : Range(own) \subseteq Range(times)

\* C1, amended: the grid is strictly ascending and holds exactly the values of
\* the work items' resolved time arrays (the own array after the substitution
\* of the passed times and after oversampling), each exactly once
C1_ResolvedTimesInGrid ==
    pc = "planned" =>
        /\ StrictlyAscending(times)
        /\ Range(times) = UNION {Range(needed_syns[k].times) : k \in GridItems}

\* C1 witness: a grid of several entries planned with passed times in use,
\* from two work items that share a time value
C1_Witness ==
    /\ pc = "planned"
    /\ ~args.times.none
    /\ Len(times) >= 2
    /\ \E k \in GridItems : \E m \in GridItems :
          k /= m /\ Range(needed_syns[k].times) \cap Range(needed_syns[m].times) /= {}

\* C2: the grid and the active lists have the same length, and a work item is
\* in the active list of the entry with value t exactly if t is one of the
\* item's own resolved times
C2_ActiveIffOwnTime ==
    pc = "planned" =>
        /\ Len(times) = Len(infos)
        /\ \A n \in DOMAIN times : \A k \in DOMAIN needed_syns :
              (k \in Range(infos[n])) <=> (times[n] \in Range(needed_syns[k].times))

\* C2 witness: a sorted grid whose entries were not found in ascending order,
\* with one entry that holds work items of two datasets
C2_Witness ==
    /\ pc = "planned"
    /\ Len(times) >= 2
    /\ \E k \in GridItems : Len(needed_syns[k].times) >= 2
          /\ needed_syns[k].times[1] > needed_syns[k].times[2]
    /\ \E n \in DOMAIN infos : \E x \in DOMAIN infos[n] : \E y \in DOMAIN infos[n] :
          needed_syns[infos[n][x]].dataset = "d1"
          /\ needed_syns[infos[n][y]].dataset = "d2"

----------------------------------------------------------------------------
(* Claims about phoebe(), checked under Spec *)

\* how often x occurs in the sequence s
Count(s, x) == Cardinality({m \in DOMAIN s : s[m] = x})

\* how many values of a synthetic were written at time t
CountAt(syn, t) == Cardinality({m \in DOMAIN syn.log : syn.log[m].time = t})

\* the positions of the run inside one time step
StepPcs == {"update_positions", "handle_eclipses", "populate_observables", "fill"}

\* C3: what the run has delivered to the caller when it ends, the collection
\* of its last yield, is the final collection of synthetics: that is what the
\* single yield of a non-streaming run hands over (line 827), so a streaming
\* run on the same input must end having yielded it too
C3_LastYieldIsFinalCollection ==
    pc = "done" => /\ yields /= <<>>
                   /\ Last(yields).syns = new_syns

\* C4: a streaming run has yielded once per completed time step, in grid
\* order, each yield holding that step's time and the synthetics with every
\* fill of that step done; a non-streaming run yields nothing before the loop
\* has ended and once, the final synthetics, after it
C4_YieldPerStep ==
    IF args.as_generator
    THEN /\ Len(yields) = IF pc \in StepPcs \cup {"loop", "done", "error"}
                          THEN i - 1 ELSE 0
         /\ pc = "done" => Len(yields) = Len(times)
         /\ \A n \in DOMAIN yields :
               /\ yields[n].time = times[n]
               /\ \A k \in DOMAIN needed_syns :
                     CountAt(yields[n].syns[k], times[n]) = Count(infos[n], k)
    ELSE /\ Len(yields) = IF pc = "done" THEN 1 ELSE 0
         /\ pc = "done" => /\ i = Len(times) + 1
                           /\ yields[1].syns = new_syns

\* C4 witness: a streaming run that ended after several time steps
C4_Witness ==
    /\ pc = "done"
    /\ args.as_generator
    /\ Len(yields) >= 2
    /\ \E n \in DOMAIN infos : Len(infos[n]) >= 2

\* the dataset of a work item
DatasetOf(info) == CHOOSE ds \in Range(b.datasets) : ds.name = info.dataset

\* C5: after a complete run a light curve's synthetic holds as many fluxes as
\* its work item has resolved times, one per time, in ascending time order;
\* a light curve with the analytical method needs no mesh
C5_OneFluxPerTime ==
    pc = "done" =>
        \A k \in DOMAIN needed_syns : needed_syns[k].kind = "lc" =>
            /\ Len(new_syns[k].values) = Len(needed_syns[k].times)
            /\ \A t \in Range(times) :
                  CountAt(new_syns[k], t) = Count(needed_syns[k].times, t)
            /\ \A m \in DOMAIN new_syns[k].values : \A n \in DOMAIN new_syns[k].values :
                  m < n => new_syns[k].values[m].time <= new_syns[k].values[n].time
            /\ DatasetOf(needed_syns[k]).lc_method = "analytical"
                  => ~needed_syns[k].needs_mesh

\* C5 witness: a complete run with an analytical light curve of several times
\* and a second dataset sharing its times
C5_Witness ==
    /\ pc = "done"
    /\ \E k \in DOMAIN needed_syns :
          /\ needed_syns[k].kind = "lc"
          /\ DatasetOf(needed_syns[k]).lc_method = "analytical"
          /\ Len(new_syns[k].values) >= 2
    /\ \E n \in DOMAIN infos : \E x \in DOMAIN infos[n] : \E y \in DOMAIN infos[n] :
          needed_syns[infos[n][x]].dataset /= needed_syns[infos[n][y]].dataset

\* C6: after a complete run the k-th value of every scalar-per-time synthetic
\* (light curve, radial velocities, orbit) was computed at the k-th entry of
\* the synthetic's own time array
C6_ValuesAlignedWithTimes ==
    pc = "done" =>
        \A k \in DOMAIN new_syns : new_syns[k].kind \in {"lc", "rv", "orb"} =>
            /\ Len(new_syns[k].values) = Len(new_syns[k].times)
            /\ \A m \in DOMAIN new_syns[k].values :
                  new_syns[k].values[m].time = new_syns[k].times[m]

\* C7: during the calibration no copy reads the scale of a component whose
\* scale has not been computed or copied yet
C7_NoScaleReadBeforeResolved == ~pblum.read_unresolved

\* the light curves of the bundle
LcDatasets == {ds \in Range(b.datasets) : ds.kind = "lc"}

\* C8: the calibration ends without an exception, and once it has ended every
\* meshable component has, for every light curve, a resolved scale that was
\* written exactly once
C8_EveryScaleResolvedOnce ==
    /\ pc = "error" => error.kind /= "pblum"
    /\ (pc \in StepPcs \cup {"loop", "done"} /\ LcDatasets /= {}) =>
          \A ds \in LcDatasets : \A c \in Range(b.meshables) :
              /\ pblum.scale[<<c, ds.name>>] \in Comps
              /\ pblum.written[<<c, ds.name>>] = 1

\* C9: in a time step with an active item that needs a mesh, the System is
\* advanced to the step's time once, then the eclipses are handled, then the
\* observables are populated, and only then are items filled; in a step
\* without such an item the System is not called at all
C9_MeshBeforeFill ==
    pc \in StepPcs =>
        LET needs == \E m \in DOMAIN infos[i] : needed_syns[infos[i][m]].needs_mesh
            order == <<"update_positions", "handle_eclipses", "populate_observables">>
        IN IF needs
           THEN /\ \A m \in DOMAIN system.calls :
                      system.calls[m] = IF m <= 3 THEN order[m] ELSE "fill"
                /\ pc = "fill" => /\ Len(system.calls) = 3 + (j - 1)
                                  /\ system.time = times[i]
                                  /\ system.step = i
           ELSE /\ pc = "fill"
                /\ \A m \in DOMAIN system.calls : system.calls[m] = "fill"
                /\ system.step /= i

\* C9 witness: an item is filled in a step in which the System was advanced
C9_Witness ==
    /\ pc = "fill"
    /\ j > 1
    /\ \E m \in DOMAIN infos[i] : needed_syns[infos[i][m]].needs_mesh
    /\ Len(system.calls) > 3

\* C10: an active item of a kind without a filler ends the run with a
\* NotImplementedError naming the kind, at the first step where it is active:
\* no step is passed, and no later item filled, with such an item skipped
C10_UnsupportedKindRaises ==
    LET fillers == {"lc", "rv", "etv", "ifm", "orb", "mesh"}
        passed(n, m) == needed_syns[infos[n][m]].kind \in fillers
    IN /\ \A n \in DOMAIN infos : n < i =>
              \A m \in DOMAIN infos[n] : passed(n, m)
       /\ pc = "fill" => \A m \in DOMAIN infos[i] : m < j => passed(i, m)
       /\ (pc = "error" /\ error.type = "NotImplementedError" /\ error.line = 820) =>
              /\ ~passed(i, j)
              /\ error.kind = needed_syns[infos[i][j]].kind

\* C10 witness: the run has ended with the error naming the spectral kind
C10_Witness ==
    /\ pc = "error"
    /\ error = [type |-> "NotImplementedError", kind |-> "sp", line |-> 820]

\* C14: in every eclipse-timing synthetic the cycle-number, reference-time,
\* solved-time and residual series have the same length at every point of the
\* run, and the k-th residual is the k-th solved time minus the k-th
\* reference time
C14_EtvSeriesAligned ==
    \A k \in DOMAIN new_syns : new_syns[k].kind = "etv" =>
        LET e == new_syns[k].etv
        IN /\ Len(e.Ns) = Len(e.time_ephems)
           /\ Len(e.time_ephems) = Len(e.time_ecls)
           /\ Len(e.time_ecls) = Len(e.etvs)
           /\ \A m \in DOMAIN e.etvs : e.etvs[m] = e.time_ecls[m] - e.time_ephems[m]

\* C14 witness: an eclipse-timing synthetic filled at two time steps, with a
\* crossing found later than its ephemeris time
C14_Witness ==
    \E k \in DOMAIN new_syns :
        /\ new_syns[k].kind = "etv"
        /\ Len(new_syns[k].etv.etvs) >= 2
        /\ new_syns[k].etv.time_ephems[1] /= new_syns[k].etv.time_ephems[2]
        /\ \E m \in DOMAIN new_syns[k].etv.etvs : new_syns[k].etv.etvs[m] > 0

\* s is an initial part of t
IsPrefix(s, t) == Len(s) <= Len(t) /\ \A m \in DOMAIN s : s[m] = t[m]

\* the kinds phoebe() fills with one scalar per time
ScalarKinds == {"lc", "rv", "etv", "ifm", "orb"}

\* C15: no step of the run overwrites or removes a value of a synthetic of a
\* scalar-per-time kind (light curve, radial velocities, eclipse timing,
\* interferometry, orbit): what such a synthetic held before a step is an
\* initial part of what it holds after the step
C15_ScalarFieldsAppendOnly ==
    [][\A k \in DOMAIN new_syns :
          (k \in DOMAIN new_syns' /\ new_syns[k].kind \in ScalarKinds) =>
              /\ IsPrefix(new_syns[k].values, new_syns'[k].values)
              /\ IsPrefix(new_syns[k].etv.Ns, new_syns'[k].etv.Ns)
              /\ IsPrefix(new_syns[k].etv.time_ephems, new_syns'[k].etv.time_ephems)
              /\ IsPrefix(new_syns[k].etv.time_ecls, new_syns'[k].etv.time_ecls)
              /\ IsPrefix(new_syns[k].etv.etvs, new_syns'[k].etv.etvs)]_vars

----------------------------------------------------------------------------
(* Claims about both planners, checked under SpecPlanners *)

\* a planner has returned
Planned == pc \in {"planned", "planned_by_dataset"}

\* the work items built from the datasets of the bundle
RealItems == {k \in DOMAIN needed_syns :
                needed_syns[k].dataset \notin {"protomesh", "pbmesh"}}

\* the decision table of C11 as stated: the flux method decides for a light
\* curve whatever the engine
NeedsMeshAsStated(engine, info, ds) ==
    IF engine \notin _backends_that_require_meshing THEN FALSE
    ELSE IF info.kind \notin {"mesh", "lc", "rv"} THEN FALSE
    ELSE IF info.kind = "lc" THEN ds.lc_method /= "analytical"
    ELSE IF info.kind = "rv"
         THEN ~(engine = "legacy" \/ ds.rv_method[info.component] = "dynamical")
    ELSE TRUE

\* the decision table with the analytical flux method a shortcut of the
\* phoebe engine only
NeedsMeshAmended(engine, info, ds) ==
    IF engine \notin _backends_that_require_meshing THEN FALSE
    ELSE IF info.kind \notin {"mesh", "lc", "rv"} THEN FALSE
    ELSE IF info.kind = "lc"
         THEN ~(engine = "phoebe" /\ ds.lc_method = "analytical")
    ELSE IF info.kind = "rv"
         THEN ~(engine = "legacy" \/ ds.rv_method[info.component] = "dynamical")
    ELSE TRUE

\* C11, as stated: the needs_mesh flag of every work item of a dataset is the
\* one of the decision table: false for an engine without meshes, false for
\* a kind other than mesh, light curve and radial velocities, false for a
\* light curve with the analytical flux method, false for radial velocities
\* under the legacy engine or with the dynamical method, true otherwise
C11_DecisionTableAsStated ==
    Planned => \A k \in RealItems :
        needed_syns[k].needs_mesh
            = NeedsMeshAsStated(b.compute_kind, needed_syns[k], DatasetOf(needed_syns[k]))

\* C11, amended: the same table, where a light curve with the analytical flux
\* method needs no mesh under the phoebe engine and needs one under any other
\* meshing engine
C11_DecisionTable ==
    Planned => \A k \in RealItems :
        needed_syns[k].needs_mesh
            = NeedsMeshAmended(b.compute_kind, needed_syns[k], DatasetOf(needed_syns[k]))

\* C11 witness: under the legacy engine, an analytical light curve that needs
\* a mesh next to radial velocities that need none
C11_Witness ==
    /\ Planned
    /\ b.compute_kind = "legacy"
    /\ \E k \in RealItems :
          /\ needed_syns[k].kind = "lc"
          /\ DatasetOf(needed_syns[k]).lc_method = "analytical"
          /\ needed_syns[k].needs_mesh
    /\ \E k \in RealItems : needed_syns[k].kind = "rv" /\ ~needed_syns[k].needs_mesh

\* C12: under an engine without meshing support no work item of either
\* planner needs a mesh, whatever its kind, the protomesh and pbmesh items
\* included
C12_NoMeshWithoutMeshingEngine ==
    (Planned /\ b.compute_kind \notin _backends_that_require_meshing) =>
        \A k \in DOMAIN needed_syns : ~needed_syns[k].needs_mesh

\* C12 witness: the by-dataset planner has planned a numerical light curve
\* and a mesh for an engine without meshes, protomesh and pbmesh asked for
C12_Witness ==
    /\ pc = "planned_by_dataset"
    /\ b.compute_kind \notin _backends_that_require_meshing
    /\ args.protomesh /\ args.pbmesh
    /\ \E k \in RealItems : /\ needed_syns[k].kind = "lc"
                             /\ DatasetOf(needed_syns[k]).lc_method = "numerical"
    /\ \E k \in RealItems : needed_syns[k].kind = "mesh"

----------------------------------------------------------------------------
(* Claims about the oversampling, checked under SpecPlan *)

\* the times of a (dataset, component) before the oversampling: its own
\* array, or the passed times in its place
TimesBeforeOversampling(ds, component) ==
    IF Len(ds.times[component]) > 0 /\ ~args.times.none
    THEN args.times.val ELSE ds.times[component]

\* C13: where the oversampling applies, the times of a light curve's work
\* item are, for each original time t in turn, n times that lie in the
\* exposure window [t - exptime/2, t + exptime/2], are uniformly spaced, reach
\* both ends of the window when n > 1, and are symmetric about t
C13_SubGridCenteredOnTime ==
    pc = "planned" => \A k \in RealItems :
        LET ds == DatasetOf(needed_syns[k])
            n == ds.fti_oversample
            h == ds.exptime \div 2
            orig == TimesBeforeOversampling(ds, None)
            sub(m, x) == needed_syns[k].times[(m - 1) * n + x]
        IN (/\ needed_syns[k].kind = "lc"
            /\ args.allow_oversample
            /\ ds.exptime > 0
            /\ ds.fti_method = "oversample") =>
              /\ Len(needed_syns[k].times) = n * Len(orig)
              /\ \A m \in DOMAIN orig :
                    /\ \A x \in 1..n :
                          /\ orig[m] - h <= sub(m, x) /\ sub(m, x) <= orig[m] + h
                          /\ sub(m, x) + sub(m, n + 1 - x) = 2 * orig[m]
                    /\ \A x \in 1..(n - 2) :
                          sub(m, x + 1) - sub(m, x) = sub(m, x + 2) - sub(m, x + 1)
                    /\ n > 1 => sub(m, 1) = orig[m] - h /\ sub(m, n) = orig[m] + h

----------------------------------------------------------------------------
(* Claims about both planners, continued (SpecPlanners) *)

\* the position in b.datasets of the dataset of a work item
DatasetIndex(info) == CHOOSE d \in DOMAIN b.datasets : b.datasets[d].name = info.dataset

\* the component whose time array a work item was built from: the system
\* level for a light curve and a mesh, the item's component otherwise
SourceComponent(info) == IF info.kind \in {"lc", "mesh"} THEN None ELSE info.component

\* C16: the by-dataset planner returns one grouping per work item of a
\* dataset, in the order the items were met (the order of the datasets), each
\* grouping holding that one item; nothing is merged into a time grid, and
\* every item keeps the time list of its own dataset and component (or the
\* passed times), unsorted, also when items share a time value
C16_SingletonGroupings ==
    pc = "planned_by_dataset" =>
        /\ times = <<>>
        /\ Len(infos) = Cardinality(RealItems)
        /\ \A n \in DOMAIN infos : infos[n] = <<n>> /\ n \in RealItems
        /\ \A m \in RealItems : \A n \in RealItems :
              m < n => DatasetIndex(needed_syns[m]) <= DatasetIndex(needed_syns[n])
        /\ \A k \in RealItems :
              needed_syns[k].times
                 = TimesBeforeOversampling(DatasetOf(needed_syns[k]),
                                           SourceComponent(needed_syns[k]))

\* C16 witness: the by-dataset planner has returned several groupings, two
\* of them with items of different datasets that share a time value, one
\* with a descending time list
C16_Witness ==
    /\ pc = "planned_by_dataset"
    /\ args.times.none
    /\ \E m \in DOMAIN infos : \E n \in DOMAIN infos :
          /\ needed_syns[infos[m][1]].dataset /= needed_syns[infos[n][1]].dataset
          /\ Range(needed_syns[infos[m][1]].times)
                \cap Range(needed_syns[infos[n][1]].times) /= {}
    /\ \E n \in DOMAIN infos : needed_syns[infos[n][1]].times = <<MaxTime, 1>>

\* the pbmesh items
PbmeshItems == {k \in DOMAIN needed_syns : needed_syns[k].dataset = "pbmesh"}

\* the times of every work item that needs a mesh and is no mesh
MeshRequiringTimes ==
    UNION {Range(needed_syns[k].times) :
             k \in {m \in RealItems : needed_syns[m].needs_mesh
                                       /\ needed_syns[m].kind /= "mesh"}}

\* C17: when the pbmesh is asked for under an engine that supports it, there
\* is exactly one pbmesh item per meshable component, it needs a mesh, its
\* times are the sorted union, without duplicates, of the times of every work
\* item that needs a mesh and is no mesh, and the by-time planner puts it in
\* the active list of exactly the time steps at those times
C17_PbmeshAtEveryMeshTime ==
    (Planned /\ args.pbmesh /\ b.compute_kind \in _backends_that_support_automesh) =>
        /\ Cardinality(PbmeshItems) = Len(b.meshables)
        /\ \A c \in DOMAIN b.meshables :
              \E k \in PbmeshItems : needed_syns[k].component = b.meshables[c]
        /\ \A k \in PbmeshItems :
              /\ needed_syns[k].needs_mesh
              /\ needed_syns[k].times = SortSet(MeshRequiringTimes)
              /\ pc = "planned" =>
                    \A n \in DOMAIN times :
                        (k \in Range(infos[n])) <=> (times[n] \in MeshRequiringTimes)

\* C19: every work item a planner hands to _create_syns, of a dataset or
\* virtual, has a non-empty time array, the pbmesh items included when no
\* other item needs a mesh
C19_NoEmptyTimeArray ==
    Planned => \A k \in DOMAIN needed_syns : needed_syns[k].times /= <<>>

----------------------------------------------------------------------------
(* phoebe() and the two planners together *)

InitRunOrPlan == Init \/ InitPlanners

NextRunOrPlan == Next \/ NextPlanners

SpecRunOrPlan == InitRunOrPlan /\ [][NextRunOrPlan]_vars

\* the protomesh items
ProtomeshItems == {k \in DOMAIN needed_syns : needed_syns[k].dataset = "protomesh"}

\* C18: when the protomesh is asked for under an engine that supports it,
\* either planner adds exactly one protomesh item per meshable component, with
\* needs_mesh false and in no active list or grouping; phoebe() writes its
\* synthetic once, before the first time step, and no time step writes to it
C18_ProtomeshOnceBeforeLoop ==
    (pc \notin {"start", "plan"} /\ args.protomesh
        /\ b.compute_kind \in _backends_that_support_protomesh) =>
        /\ Cardinality(ProtomeshItems) = Len(b.meshables)
        /\ \A c \in DOMAIN b.meshables :
              \E k \in ProtomeshItems : needed_syns[k].component = b.meshables[c]
        /\ \A k \in ProtomeshItems :
              /\ ~needed_syns[k].needs_mesh
              /\ \A n \in DOMAIN infos : k \notin Range(infos[n])
              /\ new_syns[k].writes =
                    IF pc \in {"initialize", "planned", "planned_by_dataset"}
                    THEN 0 ELSE 1
              /\ \A m \in DOMAIN new_syns[k].log :
                    new_syns[k].log[m].sys_step = -1

\* C18 witness: a run of phoebe() over several time steps has ended, with
\* the protomesh of two components written and a pbmesh filled in the loop
C18_Witness ==
    /\ pc = "done"
    /\ args.protomesh
    /\ Len(times) >= 2
    /\ Cardinality(ProtomeshItems) = 2
    /\ \A k \in ProtomeshItems : new_syns[k].writes = 1
    /\ \E k \in PbmeshItems : new_syns[k].writes >= 2

----------------------------------------------------------------------------
(* Claims about the passed times, checked under SpecPlanners *)

\* the (dataset, component) pairs a planner reads a time array of: an enabled
\* dataset, a component that holds the time qualifier, a kind that takes it
ScannedPairs ==
    { p \in Range(b.datasets) \X CompsOrNone :
        /\ p[1].enabled
        /\ p[2] \in p[1].has
        /\ p[2] \in Range(LoopComponents(b))
        /\ (p[2] = None => p[1].kind \in {"lc", "mesh"}) }

\* the work items built from the time array of a (dataset, component)
ItemsOf(ds, component) ==
    {k \in RealItems : /\ needed_syns[k].dataset = ds.name
                        /\ SourceComponent(needed_syns[k]) = component}

\* the by-time planner oversamples the times of this dataset
OversamplingApplies(ds) ==
    /\ pc = "planned"
    /\ args.allow_oversample
    /\ ds.kind = "lc"
    /\ ds.exptime > 0
    /\ ds.fti_method = "oversample"

\* C20, as stated: with times passed to a planner, every dataset and
\* component with a non-empty time array of its own yields a work item whose
\* times are exactly the passed array, and every one with an empty array
\* yields no work item
C20_OverrideReplacesOwnTimes ==
    (Planned /\ ~args.times.none) =>
        \A p \in ScannedPairs :
            IF p[1].times[p[2]] /= <<>>
            THEN /\ ItemsOf(p[1], p[2]) /= {}
                 /\ \A k \in ItemsOf(p[1], p[2]) :
                       needed_syns[k].times = args.times.val
            ELSE ItemsOf(p[1], p[2]) = {}

\* C20, amended: with a non-empty array passed, a dataset and component with
\* a non-empty time array of its own yields work items whose times are the
\* passed array, each time replaced by its sub-grid where the by-time
\* planner oversamples; with the empty array passed, or an empty time array
\* of its own, it yields no work item
C20_OverrideThenOversample ==
    (Planned /\ ~args.times.none) =>
        \A p \in ScannedPairs :
            IF p[1].times[p[2]] /= <<>> /\ args.times.val /= <<>>
            THEN /\ ItemsOf(p[1], p[2]) /= {}
                 /\ \A k \in ItemsOf(p[1], p[2]) :
                       needed_syns[k].times =
                          IF OversamplingApplies(p[1])
                          THEN Oversample(args.times.val, p[1].exptime,
                                          p[1].fti_oversample)
                          ELSE args.times.val
            ELSE ItemsOf(p[1], p[2]) = {}

\* C20 witness: the by-time planner was passed a non-empty array and has
\* built an oversampled light curve from it, next to the radial velocities
\* of two components that hold the passed array as it is
C20_Witness ==
    /\ pc = "planned"
    /\ ~args.times.none /\ args.times.val /= <<>>
    /\ \E k \in RealItems : /\ needed_syns[k].kind = "lc"
                             /\ OversamplingApplies(DatasetOf(needed_syns[k]))
                             /\ Len(needed_syns[k].times) > Len(args.times.val)
    /\ Cardinality({k \in RealItems : /\ needed_syns[k].kind = "rv"
                                       /\ needed_syns[k].times = args.times.val}) = 2

----------------------------------------------------------------------------
(* Claims about the calibration and the System, checked under Spec *)

\* the positions of the run inside the calibration
PblumPcs == {"pblum", "pblum_dataset", "pblum_copy"}

\* C21: every write of a luminosity scale happens during the calibration,
\* before the first time step: the System has not been advanced to a time
\* of the grid, no eclipse was handled, no observable of a time step
\* populated and no synthetic filled in the loop; and once the loop has
\* begun the calibration has nothing left to copy
C21_ScalesWrittenBeforeLoop ==
    /\ [](pc \in StepPcs \cup {"loop", "done"} => pblum.pending = {})
    /\ [][(pblum'.scale /= pblum.scale \/ pblum'.written /= pblum.written) =>
            /\ pc \in PblumPcs
            /\ pc' \in PblumPcs \cup {"loop"}
            /\ i = 1
            /\ system.step < 1
            /\ system.calls = <<>>
            /\ yields = <<>>
            /\ \A k \in DOMAIN new_syns :
                  \A m \in DOMAIN new_syns[k].log : new_syns[k].log[m].time = NoneTime]_vars

\* C21 witness: a run has ended after its time steps, a light curve filled
\* from the System, with a scale that was copied from another component
C21_Witness ==
    /\ pc = "done"
    /\ Len(times) >= 1
    /\ \E ds \in LcDatasets : \E c \in Range(b.meshables) :
          /\ ds.pblum_ref[c] /= "self"
          /\ pblum.scale[<<c, ds.name>>] \in Comps
          /\ pblum.written[<<c, ds.name>>] = 1
    /\ \E k \in DOMAIN new_syns : new_syns[k].kind = "lc" /\ new_syns[k].writes >= 1

\* C22: every value a fill reads from the System at the time step of value t
\* was read in a step in which the System had been advanced to t: no fill
\* reads the System as an earlier step or the calibration left it
C22_SystemReadAtStepTime ==
    \A k \in DOMAIN new_syns : \A m \in DOMAIN new_syns[k].log :
        new_syns[k].log[m].src = "system" =>
            /\ new_syns[k].log[m].sys_step \in DOMAIN times
            /\ times[new_syns[k].log[m].sys_step] = new_syns[k].log[m].time

\* C23: with one meshable component that is no envelope, no trajectory is
\* computed and no time step reads one, whatever the dynamics method, and no
\* step fails for want of one
C23_SingleStarNeedsNoTrajectory ==
    (Len(b.meshables) = 1 /\ ~b.envelope) =>
        /\ ~system.trajectory
        /\ system.traj_reads = 0
        /\ ~(pc = "error" /\ error.type = "NameError")

\* C25: when the horizons are asked for, the fill of a mesh item either
\* stores the analytic horizon or fails with the unsupported-method error: no
\* mesh item is filled without the one or the other
C25_HorizonStoredOrRaised ==
    args.horizon =>
        \A k \in DOMAIN new_syns :
            (new_syns[k].kind = "mesh" /\ new_syns[k].writes >= 1) =>
                \/ "horizon_analytic" \in new_syns[k].horizon
                \/ /\ pc = "error"
                   /\ error.type = "NotImplementedError"
                   /\ error.line = 792

----------------------------------------------------------------------------
(* Claims about the two planners, checked under SpecPlanners *)

\* what the two planners are compared on
WorkItem(info) ==
    [dataset |-> info.dataset, component |-> info.component, kind |-> info.kind,
     needs_mesh |-> info.needs_mesh, times |-> info.times]

WorkItems(needed) == [k \in DOMAIN needed |-> WorkItem(needed[k])]

\* C24: for the same bundle and options, the planner by time, as phoebe()
\* calls it, builds the same ordered list of work items as the planner by
\* dataset, as legacy() calls it
C24_PlannersBuildSameItems ==
    pc = "planned" =>
        WorkItems(needed_syns) =
            WorkItems(_extract_from_bundle_by_dataset(
                          b, args.times, args.protomesh, args.pbmesh).needed_syns)

----------------------------------------------------------------------------
(* legacy(), lines 830-1270 *)

\* line 902: the engine's field names and the qualifiers they are stored as
p2to1 ==
    [tloc |-> "teffs", glog |-> "loggs", vcx |-> "xs", vcy |-> "ys",
     vcz |-> "zs", grx |-> "nxs", gry |-> "nys", grz |-> "nzs",
     csbt |-> "cosbetas", rad |-> "rs", Inorm |-> "abs_normal_intensities"]

\* key[:2] of the engine's field names
_key2 ==
    [tloc |-> "tl", glog |-> "gl", vcx |-> "vc", vcy |-> "vc", vcz |-> "vc",
     grx |-> "gr", gry |-> "gr", grz |-> "gr", csbt |-> "cs", rad |-> "ra",
     Inorm |-> "In"]

\* mesh.keys(): a field name (key[:-1]) with the number of the star (key[-1])
MeshKeys == { [root |-> r, comp |-> c] : r \in DOMAIN p2to1, c \in {1, 2} }

\* lines 904-939: the component and the qualifier a key is stored under (the
\* engine's keys end in 1 or 2)
ret_dict(key) ==
    [component |-> IF key.comp = 1 THEN "primary" ELSE "secondary",
     qualifier |-> IF key.root \in DOMAIN p2to1 THEN p2to1[key.root]
                   ELSE key.root]

\* the mesh the engine returns for n times: per key an array with one
\* surface element per time, of size v; the gradient of an element is
\* (v, 2v, 2v)
Phb1Mesh(n, v) ==
    [key \in MeshKeys |->
        [p \in 1..n |-> IF key.root \in {"gry", "grz"} THEN 2 * v ELSE v]]

\* the meshes the engine may return
Phb1Meshes(n) == { Phb1Mesh(n, v) : v \in {1, 2} }

\* the qualifiers the mesh synthetics hold (their constructor is outside
\* backends.py): all that p2to1 names, all but the intensities, or none
SlotChoices ==
    { {},
      { p2to1[r] : r \in DOMAIN p2to1 },
      { p2to1[r] : r \in DOMAIN p2to1 \ {"Inorm"} } }

\* the signs of the eight copies of a one-quadrant value
SignsY == <<1, 1, -1, -1, 1, 1, -1, -1>>
SignsZ == <<1, 1, 1, 1, -1, -1, -1, -1>>
SignsSame == <<1, 1, 1, 1, 1, 1, 1, 1>>

\* np.array(zip(a*s1, ..., a*s8)).flatten(): per element its eight copies
Mirror(arr, signs) ==
    [p \in 1..(Len(signs) * Len(arr)) |->
        signs[((p - 1) % Len(signs)) + 1] * arr[((p - 1) \div Len(signs)) + 1]]

\* a string in a condition: true unless empty
_truthy(str) == str /= ""

\* lines 978-983: the signs of the copies of a key of the protomesh; what
\* line 979 assigns is assigned again by line 981 or line 983
_protomesh_signs(key) ==
    LET at_979 == IF _truthy("vcy") \/ key.root = "gry" THEN SignsY ELSE SignsSame
    IN IF _truthy("vcz") \/ key.root = "grz" THEN SignsZ ELSE SignsSame

\* np.sqrt of a square
Sqrt(n) == CHOOSE r \in 0..n : r * r = n

\* lines 959-968: the length of the gradient of each element of star comp
grtot(mesh, comp) ==
    [p \in DOMAIN mesh[[root |-> "grx", comp |-> comp]] |->
        Sqrt(mesh[[root |-> "grx", comp |-> comp]][p] ^ 2
             + mesh[[root |-> "gry", comp |-> comp]][p] ^ 2
             + mesh[[root |-> "grz", comp |-> comp]][p] ^ 2)]

\* lines 985-993: the value stored, as fractions: a gradient is divided by
\* its length and negated
_protomesh_value(mesh, key, key_val) ==
    IF _key2[key.root] = "gr"
    THEN LET grtotn == Mirror(grtot(mesh, key.comp), SignsSame)
         IN [p \in DOMAIN key_val |-> [num |-> -key_val[p], den |-> grtotn[p]]]
    ELSE [p \in DOMAIN key_val |-> [num |-> key_val[p], den |-> 1]]

\* new_syns.filter(**d): the mesh synthetics with a slot for this component,
\* dataset, qualifier and time
_slot(syns, slots, component, dataset, qualifier, time) ==
    { k \in DOMAIN syns :
        /\ syns[k].kind = "mesh"
        /\ syns[k].component = component
        /\ \/ syns[k].dataset = dataset
           \/ dataset \in syns[k].dataset_fields
        /\ qualifier \in slots
        /\ time \in Range(syns[k].times) }

\* lines 970-999: what fill_mesh does with each key of a protomesh
_protomesh_entries(syns, slots, mesh) ==
    { LET d == ret_dict(key)
          key_val == Mirror(mesh[key], _protomesh_signs(key))
      IN [type |-> "protomesh", key |-> key, time |-> NoneTime,
          component |-> d.component, dataset |-> "protomesh",
          qualifier |-> d.qualifier,
          prot_val |-> mesh[key], key_val |-> key_val,
          value |-> _protomesh_value(mesh, key, key_val),
          outcome |-> IF _slot(syns, slots, d.component, "protomesh",
                               d.qualifier, NoneTime) /= {}
                      THEN "written" ELSE "warned"]
      : key \in MeshKeys }

\* np.array_split(arr, n)[t] of an array of n equal parts
_array_split(arr, n, t) ==
    SubSeq(arr, (t - 1) * (Len(arr) \div n) + 1, t * (Len(arr) \div n))

\* lines 1001-1028: what fill_mesh does with each key of a pbmesh at each
\* time; only the intensities get as far as a write or a warning
_pbmesh_entries(syns, slots, mesh, dataset, time) ==
    { LET key == p[1]
          t == p[2]
          d == ret_dict(key)
          key_values == _array_split(mesh[key], Len(time), t)
      IN IF key.root = "Inorm"
         THEN IF _key2[key.root] \in {"vc", "gr"}
              THEN [type |-> "pbmesh", key |-> key, time |-> time[t],
                    component |-> d.component, dataset |-> dataset,
                    qualifier |-> d.qualifier,
                    prot_val |-> key_values, key_val |-> <<>>, value |-> <<>>,
                    outcome |-> "dropped"]
              ELSE LET key_val == Mirror(key_values, SignsSame)
                   IN [type |-> "pbmesh", key |-> key, time |-> time[t],
                       component |-> d.component, dataset |-> dataset,
                       qualifier |-> d.qualifier,
                       prot_val |-> key_values, key_val |-> key_val,
                       value |-> [q \in DOMAIN key_val |->
                                    [num |-> key_val[q], den |-> 1]],
                       outcome |-> IF _slot(syns, slots, d.component, dataset,
                                            d.qualifier, time[t]) /= {}
                                   THEN "written" ELSE "warned"]
         ELSE [type |-> "pbmesh", key |-> key, time |-> time[t],
               component |-> d.component, dataset |-> "pbmesh",
               qualifier |-> d.qualifier,
               prot_val |-> key_values, key_val |-> <<>>, value |-> <<>>,
               outcome |-> "dropped"]
      : p \in MeshKeys \X (1..Len(time)) }

\* new_syns.set_value(**d) for the entries written
_set_values(syns, slots, entries) ==
    [k \in DOMAIN syns |->
        [syns[k] EXCEPT !.columns =
            { c \in @ : ~\E e \in entries :
                            /\ e.outcome = "written"
                            /\ k \in _slot(syns, slots, e.component, e.dataset,
                                           e.qualifier, e.time)
                            /\ c.qualifier = e.qualifier
                            /\ c.dataset = e.dataset
                            /\ c.time = e.time }
            \cup
            { [qualifier |-> e.qualifier, dataset |-> e.dataset,
               time |-> e.time, value |-> e.value] :
                e \in { e \in entries :
                          /\ e.outcome = "written"
                          /\ k \in _slot(syns, slots, e.component, e.dataset,
                                         e.qualifier, e.time) } }]]

\* lines 942-1033: fill_mesh(mesh, type, time): the synthetics, the fields
\* translated and the warnings logged
fill_mesh(syns, state, slots, mesh, type, dataset, time) ==
    LET entries == IF type = "protomesh"
                   THEN _protomesh_entries(syns, slots, mesh)
                   ELSE _pbmesh_entries(syns, slots, mesh, dataset, time)
    IN [syns |-> _set_values(syns, slots, entries),
        state |-> [state EXCEPT
                     !.translated = @ \cup entries,
                     !.warnings = @ \cup { [type |-> e.type, key |-> e.key]
                                           : e \in { e \in entries :
                                                      e.outcome = "warned" } }]]

\* a binary whose stars carry the names legacy() knows, a binary whose
\* secondary carries another name, and a single star
LegacyStars == { <<"primary", "secondary">>, <<"primary", "C">>, <<"primary">> }

\* light curves, radial velocities of one star or of both with a velocity
\* method per star, and a mesh
LegacyDatasets(stars) ==
    LET star1 == stars[1]
        star2 == stars[Len(stars)]
        lc(name) == WithTimes(DefaultDataset(name, "lc"), None, <<1, MaxTime>>)
        rv(name) == [DefaultDataset(name, "rv") EXCEPT
                        !.rv_method = [c \in Comps |->
                                          IF c = star1 THEN "dynamical"
                                          ELSE "flux-weighted"]]
        mesh(name) == WithTimes(DefaultDataset(name, "mesh"), None, <<1>>)
    IN { << lc("d1") >>,
         << lc("d1"), lc("d2") >>,
         << lc("d1"), mesh("d2") >>,
         << WithTimes(rv("d1"), star2, <<1>>) >>,
         << WithTimes(WithTimes(rv("d1"), star1, <<1>>), star2, <<MaxTime>>),
            WithTimes(rv("d2"), star1, <<1, MaxTime>>) >>,
         << WithTimes(rv("d1"), star1, <<1>>),
            WithTimes(rv("d2"), star2, <<1>>),
            WithTimes(rv("d3"), star1, <<MaxTime>>) >> }

LegacyBundles ==
    UNION { { [Bundle(stars, datasets) EXCEPT !.compute_kind = "legacy"] :
                datasets \in LegacyDatasets(stars) }
            : stars \in LegacyStars }

\* the times are not passed or passed; without or with the meshes
LegacyArgs ==
    { [times |-> t, as_generator |-> FALSE, protomesh |-> m[1], pbmesh |-> m[2],
       horizon |-> FALSE]
      : t \in { NoProvidedTimes, ProvidedTimes(<<MaxTime, 1>>) },
        m \in { <<FALSE, FALSE>>, <<TRUE, FALSE>>, <<FALSE, TRUE>>, <<TRUE, TRUE>> } }

\* the radial-velocity curves of the bundle: dataset and star
RvCurves(bb) ==
    { p \in Range(bb.datasets) \X Range(bb.stars) :
        p[1].kind = "rv" /\ p[2] \in p[1].has }

\* phoebe_rv_id of the engine's curves 0 and 1, as the file written for the
\* engine holds them: the datasets of two of the bundle's curves
LegacyRvIds(bb) ==
    IF Cardinality(RvCurves(bb)) >= 2
    THEN { <<c1[1].name, c2[1].name>> :
             <<c1, c2>> \in { q \in RvCurves(bb) \X RvCurves(bb) : q[1] /= q[2] } }
    ELSE IF RvCurves(bb) /= {}
    THEN { <<c[1].name, "">> : c \in RvCurves(bb) }
    ELSE { <<"", "">> }

InitLegacy ==
    /\ b \in LegacyBundles
    /\ args \in LegacyArgs
    /\ pc = "legacy"
    /\ times = <<>>
    /\ infos = <<>>
    /\ needed_syns = <<>>
    /\ new_syns = <<>>
    /\ i = 1
    /\ j = 1
    /\ system = NoSystem
    /\ pblum = NoPblum
    /\ yields = <<>>
    /\ error = NoException
    /\ \E ids \in LegacyRvIds(b) : legacy = [NoLegacy EXCEPT !.rv_id = ids]

\* lines 1035-1068: the two stars, the engine opened, the counters, the plan
\* by dataset and the synthetics
LegacyOpen ==
    /\ pc = "legacy"
    /\ IF Len(b.stars) /= 2
       THEN /\ error' = [type |-> "ValueError", kind |-> "stars", line |-> 1049]
            /\ pc' = "error"
            /\ UNCHANGED <<times, infos, needed_syns, new_syns, legacy>>
       ELSE /\ LET g == _extract_from_bundle_by_dataset(b, args.times,
                                                        args.protomesh, args.pbmesh)
               IN /\ times' = g.times
                  /\ infos' = g.infos
                  /\ needed_syns' = g.needed_syns
                  /\ new_syns' = _create_syns(g.needed_syns)
            /\ legacy' = [legacy EXCEPT !.lcnum = 0, !.rvnum = 0]
            /\ pc' = "legacy_protomesh"
            /\ UNCHANGED error
    /\ UNCHANGED <<b, args, i, j, system, pblum, yields>>

\* a call of the engine for an item of infos (0: for none): the times, the
\* arguments after them, and the parameters set for the call
Phb1Call(fn, item, time, rest, pars) ==
    [fn |-> fn, item |-> item, times |-> time, rest |-> rest, pars |-> pars]

\* lines 1076-1081: the protomesh, from a light curve at periastron (here
\* the epoch t0)
LegacyProtomesh ==
    /\ pc = "legacy_protomesh"
    /\ IF args.protomesh
       THEN \E mesh \in Phb1Meshes(1), slots \in SlotChoices :
              LET called == [legacy EXCEPT
                               !.pars = Append(@, <<"phoebe_lcno", 1>>),
                               !.calls = Append(@,
                                   Phb1Call("lc", 0, <<b.t0>>,
                                            <<0, legacy.lcnum + 1>>,
                                            << <<"phoebe_lcno", 1>> >>))]
                  filled == fill_mesh(new_syns, called, slots, mesh, "protomesh",
                                      None, <<NoneTime>>)
              IN /\ new_syns' = filled.syns
                 /\ legacy' = filled.state
       ELSE UNCHANGED <<new_syns, legacy>>
    /\ pc' = "legacy_loop"
    /\ UNCHANGED <<b, args, times, infos, needed_syns, i, j, system, pblum,
                   yields, error>>

\* this_syn['fluxes'] = flux, this_syn.set_value(qualifier='rvs', ...): the
\* synthetics of the component and dataset get the array the call returned
_set_array(syns, info, call) ==
    [k \in DOMAIN syns |->
        IF syns[k].component = info.component /\ syns[k].dataset = info.dataset
        THEN [syns[k] EXCEPT
                !.values = [t \in DOMAIN info.times |->
                               [time |-> info.times[t], src |-> call.fn,
                                sys_step |-> call.rest[1]]],
                !.writes = @ + 1]
        ELSE syns[k]]

\* lines 1181-1194: the name dep after the comparison of the dataset with the
\* engine's two identifiers; it keeps what it was bound to when neither is
\* the dataset
_rv_dep(state, info) ==
    IF info.dataset = state.rv_id[1] THEN info.component
    ELSE IF info.dataset = state.rv_id[2] THEN info.component
    ELSE state.dep

\* lines 1196-1201: the proximity switch, from the velocity method of the
\* component 'primary'
_rveffects(bb, info) ==
    LET ds == CHOOSE ds \in Range(bb.datasets) : ds.name = info.dataset
    IN IF ds.rv_method["primary"] = "flux-weighted" THEN 1 ELSE 0

\* lines 1089-1105: a light curve
LegacyLc(k) ==
    LET info == needed_syns[k]
    IN IF ~args.pbmesh
       THEN LET call == Phb1Call("lc", k, info.times, <<legacy.lcnum>>, <<>>)
            IN /\ new_syns' = _set_array(new_syns, info, call)
               /\ legacy' = [legacy EXCEPT !.calls = Append(@, call),
                                           !.lcnum = @ + 1]
       ELSE \E mesh \in Phb1Meshes(Len(info.times)), slots \in SlotChoices :
              LET call == Phb1Call("lc", k, info.times, <<0, legacy.lcnum + 1>>,
                                   <<>>)
                  called == [legacy EXCEPT !.calls = Append(@, call)]
                  filled == fill_mesh(_set_array(new_syns, info, call), called,
                                      slots, mesh, "pbmesh", info.dataset,
                                      info.times)
              IN /\ new_syns' = filled.syns
                 /\ legacy' = filled.state

\* lines 1175-1224: radial velocities
LegacyRv(k) ==
    LET info == needed_syns[k]
        dep == _rv_dep(legacy, info)
        rveffects == _rveffects(b, info)
    IN IF dep = "unbound"
       THEN /\ error' = [type |-> "UnboundLocalError", kind |-> "dep",
                         line |-> 1210]
            /\ pc' = "error"
            /\ UNCHANGED <<new_syns, legacy, i>>
       ELSE IF dep = "primary"
       THEN LET call == Phb1Call("rv1", k, info.times, <<0>>,
                                 << <<"phoebe_proximity_rv1_switch", rveffects>> >>)
            IN /\ new_syns' = _set_array(new_syns, info, call)
               /\ legacy' = [legacy EXCEPT
                               !.dep = dep,
                               !.pars = Append(@, <<"phoebe_proximity_rv1_switch",
                                                    rveffects>>),
                               !.calls = Append(@, call),
                               !.rvnum = @ + 1]
               /\ i' = i + 1
               /\ UNCHANGED <<pc, error>>
       ELSE IF dep = "secondary"
       THEN LET call == Phb1Call("rv2", k, info.times, <<0>>,
                                 << <<"phoebe_proximity_rv2_switch", rveffects>> >>)
            IN /\ new_syns' = _set_array(new_syns, info, call)
               /\ legacy' = [legacy EXCEPT
                               !.dep = dep,
                               !.pars = Append(@, <<"phoebe_proximity_rv2_switch",
                                                    rveffects>>),
                               !.calls = Append(@, call),
                               !.rvnum = @ + 1]
               /\ i' = i + 1
               /\ UNCHANGED <<pc, error>>
       ELSE /\ error' = [type |-> "ValueError", kind |-> info.component,
                         line |-> 1220]
            /\ legacy' = [legacy EXCEPT !.dep = dep]
            /\ pc' = "error"
            /\ UNCHANGED <<new_syns, i>>

\* lines 1083-1231: one item of infos; a mesh is passed over
LegacyItem ==
    /\ pc = "legacy_loop"
    /\ i <= Len(infos)
    /\ LET k == infos[i][1]
       IN CASE needed_syns[k].kind = "lc" ->
                 /\ LegacyLc(k)
                 /\ i' = i + 1
                 /\ UNCHANGED <<pc, error>>
            [] needed_syns[k].kind = "rv" -> LegacyRv(k)
            [] OTHER ->
                 /\ i' = i + 1
                 /\ UNCHANGED <<pc, error, new_syns, legacy>>
    /\ UNCHANGED <<b, args, times, infos, needed_syns, j, system, pblum, yields>>

\* line 1270
LegacyYield ==
    /\ pc = "legacy_loop"
    /\ i > Len(infos)
    /\ yields' = Append(yields, new_syns)
    /\ pc' = "done"
    /\ UNCHANGED <<b, args, times, infos, needed_syns, new_syns, i, j, system,
                   pblum, error, legacy>>

NextLegacy ==
    \/ LegacyOpen
    \/ LegacyProtomesh
    \/ LegacyItem
    \/ LegacyYield

SpecLegacy == InitLegacy /\ [][NextLegacy]_vars

----------------------------------------------------------------------------
(* Claims about legacy(), checked under SpecLegacy *)

\* the calls of the engine for the items of infos
ItemCalls(fns) == { c \in Range(legacy.calls) : c.fn \in fns /\ c.item /= 0 }

\* C26: radial velocities of the primary come from the call for the primary,
\* those of the secondary from the call for the secondary, and an item of
\* another component ends the run with a ValueError, whatever item went
\* before and whether or not the engine knows the item's dataset
C26_RvRoutedByOwnComponent ==
    /\ \A c \in ItemCalls({"rv1"}) : needed_syns[c.item].component = "primary"
    /\ \A c \in ItemCalls({"rv2"}) : needed_syns[c.item].component = "secondary"
    /\ (pc = "error" /\ i \in DOMAIN infos) =>
          /\ error.type = "ValueError"
          /\ needed_syns[infos[i][1]].kind = "rv"
          /\ needed_syns[infos[i][1]].component \notin {"primary", "secondary"}

\* the light curves among the first k items of infos
LcItemsBefore(k) ==
    { m \in 1..(k - 1) : m \in DOMAIN infos /\ needed_syns[infos[m][1]].kind = "lc" }

\* the position in infos of the item a call was made for
PositionOf(call) == CHOOSE m \in DOMAIN infos : infos[m][1] = call.item

\* C27: the light curves are evaluated by dataset index: each with other
\* indices than every other light curve, and the k-th one (counting from 0)
\* with index k, with or without the pbmesh
C27_LcIndexPerDataset ==
    /\ \A c1, c2 \in ItemCalls({"lc"}) :
          c1.item /= c2.item => c1.rest /= c2.rest
    /\ \A c \in ItemCalls({"lc"}) :
          c.rest[1] = Cardinality(LcItemsBefore(PositionOf(c)))

\* C28: the proximity switch set for a radial-velocity call is 1 exactly
\* when the velocity method of the item's own component and dataset is
\* flux-weighted
C28_ProximityOfOwnComponent ==
    \A c \in ItemCalls({"rv1", "rv2"}) :
        LET info == needed_syns[c.item]
            ds == CHOOSE ds \in Range(b.datasets) : ds.name = info.dataset
        IN (c.pars[1][2] = 1) <=> (ds.rv_method[info.component] = "flux-weighted")

\* the signs the copies of a field get by its direction
SignsByDirection(key) ==
    IF key.root \in {"vcy", "gry"} THEN SignsY
    ELSE IF key.root \in {"vcz", "grz"} THEN SignsZ
    ELSE SignsSame

\* C29: in the protomesh each one-quadrant field is expanded to eight
\* copies per element, with the signs of the field's direction: y fields
\* (+,+,-,-,+,+,-,-), z fields (+,+,+,+,-,-,-,-), every other field unchanged
C29_MirroredByDirection ==
    \A e \in legacy.translated :
        e.type = "protomesh" =>
            e.key_val = Mirror(e.prot_val, SignsByDirection(e.key))

\* C30: of a pbmesh every field the engine returns is, at every time of the
\* dataset, written into the synthetics or warned about
C30_PbmeshWrittenOrWarned ==
    \A c \in { c \in ItemCalls({"lc"}) : Len(c.rest) = 2 } :
        \A key \in MeshKeys, t \in Range(c.times) :
            \E e \in legacy.translated :
                /\ e.type = "pbmesh"
                /\ e.key = key
                /\ e.time = t
                /\ \/ /\ e.outcome = "written"
                      /\ \E k \in DOMAIN new_syns : \E col \in new_syns[k].columns :
                            /\ col.qualifier = e.qualifier
                            /\ col.time = t
                   \/ /\ e.outcome = "warned"
                      /\ [type |-> "pbmesh", key |-> key] \in legacy.warnings

====
